---- MODULE Spec2Model ----
(***************************************************************************)
(* Model of nblock_delay (src/non_blocking_delay.h): a polled interval     *)
(* timer over the free-running millisecond counter millis().               *)
(*                                                                         *)
(* unsigned long is modelled as the integers modulo 2^Bits. The counter    *)
(* advances on its own (Tick), also between the two millis() reads that    *)
(* elapsed() makes (line 24 and line 25), so elapsed() is two steps joined *)
(* by pc. Every other method reads the counter once and is one step.       *)
(***************************************************************************)
EXTENDS Integers, Naturals, FiniteSets, Sequences, TLC

\* Width of unsigned long in the model (32 on the target).
Bits == 2

Modulus == 2^Bits

\* The values of an unsigned long.
ULong == 0..(Modulus - 1)

VARIABLES
    now,           \* the millisecond counter that millis() returns
    interval_,     \* nblock_delay::interval_
    lastTrigger_,  \* nblock_delay::lastTrigger_
    pc,            \* position inside elapsed(): "idle", or "assign" before line 25
    call,          \* the call in progress or just returned (cleared by the next tick)
    since,         \* true milliseconds since lastTrigger_ was read, saturating at Modulus
    remSeen,       \* last remaining() result since the last true elapsed()/trigger()
    remClean,      \* the same, also forgotten on reset() and setInterval()
    twin           \* reference timer: same calls, elapsed() wherever trigger() is called

vars == <<now, interval_, lastTrigger_, pc, call, since, remSeen, remClean, twin>>

\* Marks "no remaining() result recorded".
NoRem == Modulus

\* Marks a saturated duration: Modulus milliseconds or more.
Lapped == Modulus

Ops == {"elapsed", "trigger", "waiting", "reset", "setInterval", "remaining"}

\* No call has been made since the counter last advanced.
NoCall == [op |-> "none", after |-> "none", ret |-> FALSE, val |-> 0,
           obs |-> 0, L |-> 0, I |-> 0, d |-> 0, seen |-> NoRem, clean |-> NoRem]

\* millis(): the current value of the counter.
millis == now

\* Subtraction of two unsigned longs, without wraparound (mutation of Sub).
SubNoWrap(a, b) == IF a >= b THEN a - b ELSE b - a

\* Subtraction of two unsigned longs: modular.
Sub(a, b) == (a - b + Modulus) % Modulus

\* Line 24 with > for >= (mutation of elapsed_cond).
elapsed_cond_strict(m, L, I) == Sub(m, L) > I

\* Line 24 treating an interval of 0 as "disabled" (mutation of elapsed_cond).
elapsed_cond_nonzero(m, L, I) == I # 0 /\ Sub(m, L) >= I

\* Line 24: the condition of elapsed().
elapsed_cond(m, L, I) == Sub(m, L) >= I

\* Line 54 with <= for < (mutation of waiting_ret).
waiting_ret_le(m, L, I) == Sub(m, L) <= I

\* Line 54 with a signed, non-modular difference (mutation of waiting_ret).
waiting_ret_signed(m, L, I) == m - L < I

\* Line 54 ending the wait one millisecond early (mutation of waiting_ret).
waiting_ret_early(m, L, I) == Sub(m, L) + 1 < I

\* Line 54: the value waiting() returns.
waiting_ret(m, L, I) == Sub(m, L) < I

\* Lines 77-79 without the guard of line 78 (mutation of remaining_ret).
remaining_ret_unguarded(m, L, I) == Sub(I, Sub(m, L))

\* Line 79 returning the elapsed time (mutation of remaining_ret).
remaining_ret_elapsed(m, L, I) ==
    LET elapsed == Sub(m, L)
    IN  IF elapsed >= I THEN 0 ELSE elapsed

\* Lines 77-79: the value remaining() returns.
remaining_ret(m, L, I) ==
    LET elapsed == Sub(m, L)
    IN  IF elapsed >= I THEN 0 ELSE Sub(I, elapsed)

\* The record of a call made now on the current timer state: the call made
\* just before it at the same clock value, its result (ret or val), the clock
\* value it read, and the state it found.
Call(op, ret, val, obs) ==
    [op |-> op, after |-> call.op, ret |-> ret, val |-> val, obs |-> obs,
     L |-> lastTrigger_, I |-> interval_, d |-> since,
     seen |-> remSeen, clean |-> remClean]

\* The constructor, lines 19-21, for the timer and the reference timer.
nblock_delay(interval_ms) ==
    /\ interval_ = interval_ms
    /\ lastTrigger_ = millis
    /\ twin = [interval_ |-> interval_ms, lastTrigger_ |-> millis,
               pc |-> "idle", ret |-> FALSE, val |-> 0]

Init ==
    /\ now \in ULong
    /\ \E interval_ms \in ULong : nblock_delay(interval_ms)
    /\ pc = "idle"
    /\ call = NoCall
    /\ since = 0
    /\ remSeen = NoRem
    /\ remClean = NoRem

\* The reference timer entering elapsed() (line 24, and line 28 when false).
twin_elapsed ==
    LET c == elapsed_cond(millis, twin.lastTrigger_, twin.interval_)
    IN  twin' = [twin EXCEPT !.pc = IF c THEN "assign" ELSE "idle",
                             !.ret = c, !.val = 0]

\* The reference timer at lines 25-26.
twin_assign ==
    twin' = [twin EXCEPT !.pc = "idle", !.lastTrigger_ = millis]

\* elapsed() restarting the timer on every call, also when it returns false
\* (mutation of elapsed_enter).
elapsed_enter_rearm(op) ==
    LET m == millis
        c == elapsed_cond(m, lastTrigger_, interval_)
    IN  /\ pc = "idle"
        /\ call' = Call(op, c, 0, m)
        /\ pc' = IF c THEN "assign" ELSE "idle"
        /\ lastTrigger_' = m
        /\ since' = 0
        /\ UNCHANGED <<now, interval_, remSeen, remClean>>

\* elapsed() up to its second clock read: line 24, and line 28 when false.
elapsed_enter(op) ==
    LET m == millis
        c == elapsed_cond(m, lastTrigger_, interval_)
    IN  /\ pc = "idle"
        /\ call' = Call(op, c, 0, m)
        /\ pc' = IF c THEN "assign" ELSE "idle"
        /\ UNCHANGED <<now, interval_, lastTrigger_, since, remSeen, remClean>>

\* elapsed(), lines 23-29, first step.
elapsed ==
    /\ elapsed_enter("elapsed")
    /\ twin_elapsed

\* trigger() reporting the condition without entering elapsed() (mutation of trigger_enter).
trigger_peek ==
    /\ pc = "idle"
    /\ call' = Call("trigger", elapsed_cond(millis, lastTrigger_, interval_), 0, millis)
    /\ UNCHANGED <<now, interval_, lastTrigger_, pc, since, remSeen, remClean>>

\* Line 36: trigger() returns elapsed().
trigger_enter == elapsed_enter("trigger")

\* trigger(), lines 35-37, first step; the reference timer runs elapsed().
trigger ==
    /\ trigger_enter
    /\ twin_elapsed

\* Lines 25-26: the second clock read of elapsed(), and its return of true.
elapsed_assign ==
    /\ pc = "assign"
    /\ lastTrigger_' = millis
    /\ pc' = "idle"
    /\ since' = 0
    /\ remSeen' = NoRem
    /\ remClean' = NoRem
    /\ twin_assign
    /\ UNCHANGED <<now, interval_, call>>

\* waiting() re-arming the timer once the interval has elapsed, as elapsed()
\* does (mutation of waiting).
waiting_rearm ==
    LET m == millis
        r == waiting_ret(m, lastTrigger_, interval_)
    IN  /\ pc = "idle"
        /\ call' = Call("waiting", r, 0, m)
        /\ lastTrigger_' = IF r THEN lastTrigger_ ELSE m
        /\ since' = IF r THEN since ELSE 0
        /\ twin' = [twin EXCEPT !.ret = r, !.val = 0,
                                !.lastTrigger_ = IF r THEN @ ELSE m]
        /\ UNCHANGED <<now, interval_, pc, remSeen, remClean>>

\* waiting(), lines 53-55.
waiting ==
    LET m == millis
        r == waiting_ret(m, lastTrigger_, interval_)
    IN  /\ pc = "idle"
        /\ call' = Call("waiting", r, 0, m)
        /\ twin' = [twin EXCEPT !.ret = waiting_ret(m, twin.lastTrigger_, twin.interval_),
                                !.val = 0]
        /\ UNCHANGED <<now, interval_, lastTrigger_, pc, since, remSeen, remClean>>

\* Line 61 re-arming from the previous deadline instead of the clock (mutation of reset_value).
reset_value_deadline == (lastTrigger_ + interval_) % Modulus

\* Line 61: the value reset() stores.
reset_value == millis

\* reset(), lines 60-62.
reset ==
    /\ pc = "idle"
    /\ lastTrigger_' = reset_value
    /\ call' = Call("reset", FALSE, 0, millis)
    /\ since' = 0
    /\ remClean' = NoRem
    /\ twin' = [twin EXCEPT !.lastTrigger_ = millis, !.ret = FALSE, !.val = 0]
    /\ UNCHANGED <<now, interval_, pc, remSeen>>

\* setInterval() that also restarts the timer (mutation of setInterval).
setInterval_restart(interval_ms) ==
    /\ pc = "idle"
    /\ interval_' = interval_ms
    /\ lastTrigger_' = millis
    /\ call' = Call("setInterval", FALSE, interval_ms, millis)
    /\ remClean' = NoRem
    /\ twin' = [twin EXCEPT !.interval_ = interval_ms, !.ret = FALSE, !.val = interval_ms]
    /\ UNCHANGED <<now, pc, since, remSeen>>

\* setInterval(interval_ms), lines 68-70.
setInterval(interval_ms) ==
    /\ pc = "idle"
    /\ interval_' = interval_ms
    /\ call' = Call("setInterval", FALSE, interval_ms, millis)
    /\ remClean' = NoRem
    /\ twin' = [twin EXCEPT !.interval_ = interval_ms, !.ret = FALSE, !.val = interval_ms]
    /\ UNCHANGED <<now, lastTrigger_, pc, since, remSeen>>

\* remaining(), lines 76-80.
remaining ==
    LET m == millis
        r == remaining_ret(m, lastTrigger_, interval_)
    IN  /\ pc = "idle"
        /\ call' = Call("remaining", FALSE, r, m)
        /\ remSeen' = r
        /\ remClean' = r
        /\ twin' = [twin EXCEPT !.ret = FALSE,
                                !.val = remaining_ret(m, twin.lastTrigger_, twin.interval_)]
        /\ UNCHANGED <<now, interval_, lastTrigger_, pc, since>>

\* The counter advances by one millisecond, wrapping at 2^Bits.
Tick ==
    /\ now' = (now + 1) % Modulus
    /\ since' = IF since >= Lapped THEN Lapped ELSE since + 1
    /\ call' = IF pc = "idle" THEN NoCall ELSE call
    /\ UNCHANGED <<interval_, lastTrigger_, pc, remSeen, remClean, twin>>

Next ==
    \/ elapsed
    \/ trigger
    \/ elapsed_assign
    \/ waiting
    \/ reset
    \/ \E interval_ms \in ULong : setInterval(interval_ms)
    \/ remaining
    \/ Tick

Spec == Init /\ [][Next]_vars

TypeOK ==
    /\ now \in ULong
    /\ interval_ \in ULong
    /\ lastTrigger_ \in ULong
    /\ pc \in {"idle", "assign"}
    /\ call.op \in Ops \cup {"none"}
    /\ since \in 0..Lapped
    /\ remSeen \in ULong \cup {NoRem}
    /\ remClean \in {remSeen, NoRem}

\* A call of elapsed() or trigger() has returned.
Returned == pc = "idle" /\ call.op \in {"elapsed", "trigger"}

\* The elapsed time a call computed, stated directly: (obs - L) mod 2^Bits.
Computed == (call.obs - call.L) % Modulus

\* The counter had wrapped between the read that set lastTrigger_ and the call's read.
Wrapped == call.obs < call.L

\* C1: elapsed() and trigger() return true if and only if
\* (now - L) mod 2^W >= I, for the clock value now the call compared, the
\* lastTrigger L and the interval I it found.
C1_ElapsedIff ==
    call.op \in {"elapsed", "trigger"} => (call.ret <=> Computed >= call.I)

\* C1 witness: elapsed() has returned false on a wrapped clock.
C1_Witness ==
    /\ Returned
    /\ call.op = "elapsed"
    /\ ~call.ret
    /\ Wrapped
    /\ Computed = call.I - 1

\* C2: when elapsed() or trigger() returns true, lastTrigger equals the clock
\* value that was compared against the interval, also when the clock advances
\* between the two clock reads of elapsed().
C2_StoresObserved ==
    (Returned /\ call.ret) => lastTrigger_ = call.obs

\* C3: while the true duration d since lastTrigger was read is at most
\* 2^W - 1, (now - L) mod 2^W equals d, also when now < L after a wrap; so
\* elapsed(), waiting() and remaining() decide on d: elapsed() is true exactly
\* when d >= interval.
C3_Wraparound ==
    /\ since < Lapped => (now - lastTrigger_) % Modulus = since
    /\ (call.op \in {"elapsed", "trigger", "waiting", "remaining"} /\ call.d < Lapped) =>
           /\ Computed = call.d
           /\ call.op \in {"elapsed", "trigger"} => (call.ret <=> call.d >= call.I)
           /\ call.op = "waiting" => (call.ret <=> call.d < call.I)
           /\ call.op = "remaining" =>
                  call.val = IF call.d >= call.I THEN 0 ELSE call.I - call.d

\* C3 witness: elapsed() has returned true on a wrapped clock, exactly at the deadline.
C3_Witness ==
    /\ Returned
    /\ call.ret
    /\ Wrapped
    /\ call.d < Lapped
    /\ call.d = call.I
    /\ call.I > 0

\* C4: waiting() returns true exactly while (now - lastTrigger) mod 2^W <
\* interval, the negation of the condition of elapsed() at the same clock
\* value, and leaves interval and lastTrigger as they were, also when the
\* interval has elapsed and however often it is called.
C4_Waiting ==
    call.op = "waiting" =>
        /\ call.ret <=> Computed < call.I
        /\ call.ret <=> ~elapsed_cond(call.obs, call.L, call.I)
        /\ interval_ = call.I
        /\ lastTrigger_ = call.L

\* C4 witness: waiting() called again after waiting(), the interval having elapsed.
C4_Witness ==
    /\ call.op = "waiting"
    /\ call.after = "waiting"
    /\ ~call.ret
    /\ call.I > 0
    /\ Computed = call.I

\* C5: remaining() returns 0 exactly when elapsed() at the same clock value
\* would return true, otherwise interval - elapsed, which lies in 1..interval;
\* it changes neither interval nor lastTrigger.
C5_Remaining ==
    call.op = "remaining" =>
        /\ call.val = 0 <=> elapsed_cond(call.obs, call.L, call.I)
        /\ call.val # 0 => (call.val = call.I - Computed /\ call.val \in 1..call.I)
        /\ interval_ = call.I
        /\ lastTrigger_ = call.L

\* C5 witness: remaining() called when more than the interval has elapsed.
C5_Witness ==
    /\ call.op = "remaining"
    /\ call.val = 0
    /\ Computed > call.I
    /\ call.I > 0

\* C6: reset() sets lastTrigger to the current clock value from any state;
\* elapsed() at the same instant then returns false unless interval is 0, and
\* remaining() at that instant equals interval.
C6_Reset ==
    /\ call.op = "reset" =>
           /\ lastTrigger_ = call.obs
           /\ call.obs = now
           /\ interval_ = call.I
           /\ interval_ # 0 => ~elapsed_cond(now, lastTrigger_, interval_)
           /\ remaining_ret(now, lastTrigger_, interval_) = interval_
    /\ (call.after = "reset" /\ call.op \in {"elapsed", "trigger"} /\ call.I # 0) => ~call.ret
    /\ (call.after = "reset" /\ call.op = "remaining") => call.val = call.I

\* C6 witness: reset() called when the interval had elapsed unchecked.
C6_Witness ==
    /\ call.op = "reset"
    /\ call.I > 0
    /\ Computed > call.I
    /\ lastTrigger_ # call.L

\* C7: setInterval(n) replaces interval with n and leaves lastTrigger
\* unchanged; if n is at most the time accumulated since lastTrigger, the next
\* elapsed() or trigger() returns true without a further clock advance.
C7_SetInterval ==
    /\ call.op = "setInterval" =>
           /\ interval_ = call.val
           /\ lastTrigger_ = call.L
    /\ (call.after = "setInterval" /\ call.op \in {"elapsed", "trigger"}
            /\ call.I <= Computed) => call.ret

\* C7 witness: elapsed() has fired right after a setInterval(n), n > 0.
C7_Witness ==
    /\ Returned
    /\ call.after = "setInterval"
    /\ call.ret
    /\ call.I > 0
    /\ call.I < Computed

\* C8: when interval is 0, from the constructor or from setInterval(0),
\* elapsed() and trigger() return true, waiting() returns false and
\* remaining() returns 0, at every clock value and lastTrigger.
C8_ZeroInterval ==
    /\ (call.op = "setInterval" /\ call.val = 0) => interval_ = 0
    /\ call.I = 0 =>
           /\ call.op \in {"elapsed", "trigger"} => call.ret
           /\ call.op = "waiting" => ~call.ret
           /\ call.op = "remaining" => call.val = 0

\* C8 witness: elapsed() has returned true right after setInterval(0), no time accumulated.
C8_Witness ==
    /\ Returned
    /\ call.op = "elapsed"
    /\ call.after = "setInterval"
    /\ call.I = 0
    /\ Computed = 0
    /\ call.ret

\* C9: trigger() is an alias of elapsed(): a timer on which trigger() is
\* called and a timer on which elapsed() is called in its place, reading the
\* same clock values, return the same results and are in the same state.
C9_TriggerAlias ==
    /\ twin.interval_ = interval_
    /\ twin.lastTrigger_ = lastTrigger_
    /\ twin.pc = pc
    /\ call.op # "none" => (twin.ret = call.ret /\ twin.val = call.val)

\* C9 witness: trigger() has returned true and re-armed the timer.
C9_Witness ==
    /\ Returned
    /\ call.op = "trigger"
    /\ call.ret
    /\ lastTrigger_ # call.L

\* C10 as stated: a remaining() result is at most the previous one whenever
\* no elapsed() or trigger() has returned true in between.
C10_Original ==
    (call.op = "remaining" /\ call.seen # NoRem) => call.val <= call.seen

\* C10 amended: a remaining() result is at most the previous one whenever
\* no elapsed() or trigger() has returned true and no reset() or setInterval()
\* was called in between, and fewer than 2^W milliseconds have passed since
\* lastTrigger was read.
C10_Monotone ==
    (call.op = "remaining" /\ call.clean # NoRem /\ call.d < Lapped) =>
        call.val <= call.clean

\* C10 witness: a later remaining() has returned less than the one before.
C10_Witness ==
    /\ call.op = "remaining"
    /\ call.clean # NoRem
    /\ call.d < Lapped
    /\ call.val < call.clean
    /\ call.val > 0

\* C11: after elapsed() returns true at observed clock value t, lastTrigger
\* is t, and elapsed() at every clock value t' with (t' - t) mod 2^W < interval
\* returns false: the new period starts at the moment of observation.
C11_RearmFromObservation ==
    (Returned /\ call.ret) =>
        /\ lastTrigger_ = call.obs
        /\ \A t \in ULong :
               (t - call.obs) % Modulus < interval_ =>
                   ~elapsed_cond(t, lastTrigger_, interval_)

\* C13: lastTrigger is always a value a clock read of the timer returned: it
\* is the clock value at construction, every value stored into it later is
\* the clock value at the moment of the store, and while the clock has not
\* lapped it is the clock value of `since` milliseconds ago.
C13_LastTriggerIsClockRead ==
    /\ lastTrigger_ = now
    /\ [][lastTrigger_' # lastTrigger_ => lastTrigger_' = now']_vars
    /\ [](since < Lapped => lastTrigger_ = (now - since) % Modulus)

\* C13 witness: elapsed() has stored a clock value read after the counter wrapped.
C13_Witness ==
    /\ Returned
    /\ call.op = "elapsed"
    /\ call.ret
    /\ lastTrigger_ = now
    /\ lastTrigger_ < call.L
    /\ call.I > 0

\* C14: when elapsed() or trigger() returns false, interval and lastTrigger
\* are exactly as the call found them.
C14_FalseLeavesState ==
    (call.op \in {"elapsed", "trigger"} /\ ~call.ret) =>
        /\ interval_ = call.I
        /\ lastTrigger_ = call.L
        /\ since = call.d
        /\ pc = "idle"

\* C14 witness: elapsed() has returned false again, with time accumulated.
C14_Witness ==
    /\ call.op = "elapsed"
    /\ call.after = "elapsed"
    /\ ~call.ret
    /\ Computed > 0
    /\ Computed = call.d

\* C17: at any clock value and timer state, waiting() is true if and only if
\* remaining() > 0, if and only if elapsed() would return false; and
\* remaining() never exceeds interval. Stated of the three methods at the
\* current state, and of the result of each call made.
C17_QueriesAgree ==
    /\ waiting_ret(now, lastTrigger_, interval_)
           <=> remaining_ret(now, lastTrigger_, interval_) > 0
    /\ waiting_ret(now, lastTrigger_, interval_)
           <=> ~elapsed_cond(now, lastTrigger_, interval_)
    /\ remaining_ret(now, lastTrigger_, interval_) <= interval_
    /\ call.op = "waiting" =>
           (call.ret <=> remaining_ret(call.obs, call.L, call.I) > 0)
    /\ call.op = "remaining" =>
           /\ call.val > 0 <=> waiting_ret(call.obs, call.L, call.I)
           /\ call.val <= call.I
    /\ call.op \in {"elapsed", "trigger"} =>
           (call.ret <=> remaining_ret(call.obs, call.L, call.I) = 0)

\* C17 witness: remaining() called right after waiting() on a wrapped clock, time left.
C17_Witness ==
    /\ call.op = "remaining"
    /\ call.after = "waiting"
    /\ call.val > 0
    /\ call.val < call.I
    /\ Wrapped

\* The step completes a call of elapsed() or trigger() that returns true (lines 25-26).
TrueReturn == pc = "assign" /\ pc' = "idle" /\ call.op \in {"elapsed", "trigger"} /\ call.ret

\* C18: interval changes only in setInterval(); lastTrigger changes only in
\* reset() and in an elapsed() or trigger() call that returns true.
C18_Frame ==
    /\ [][interval_' # interval_ => call'.op = "setInterval"]_vars
    /\ [][lastTrigger_' # lastTrigger_ => (call'.op = "reset" \/ TrueReturn)]_vars

\* C18 witness: setInterval() has changed interval right after reset() changed lastTrigger.
C18_Witness ==
    /\ call.op = "setInterval"
    /\ call.after = "reset"
    /\ interval_ # call.I
    /\ lastTrigger_ = call.L
    /\ lastTrigger_ = now

(***************************************************************************)
(* The documented wait loop, lines 46-51:                                  *)
(*     nblock_delay timeout(N);  while (timeout.waiting()) { work }        *)
(* The loop polls waiting() at every clock value, starting at the one of   *)
(* the construction; it has exited once waiting() has returned false.      *)
(***************************************************************************)

\* The loop is running: waiting() has not been called at this clock value, or returned true.
InLoop == call.op = "none" \/ (call.op = "waiting" /\ call.ret)

\* The loop of lines 48-50 has exited: waiting() has returned false.
LoopExited == call.op = "waiting" /\ ~call.ret

\* Line 48: the loop condition calls waiting().
WaitPoll == InLoop /\ waiting

\* The counter advances during the loop body, after waiting() was polled at this value.
WaitTick == call.op = "waiting" /\ call.ret /\ Tick

WaitNext == WaitPoll \/ WaitTick

\* The wait loop, with the clock advancing and the loop running on.
SpecWait == Init /\ [][WaitNext]_vars /\ WF_vars(WaitPoll) /\ WF_vars(WaitTick)

\* C15: the wait loop terminates when the clock keeps advancing and
\* waiting() is polled at every tick, and when it exits at least interval
\* milliseconds have passed since construction.
C15_WaitLoopTerminates ==
    /\ <>LoopExited
    /\ [](LoopExited => (since >= interval_ /\ call.d >= call.I))

\* C15 witness: the loop has exited after the longest interval, the clock having wrapped.
C15_Witness ==
    /\ LoopExited
    /\ interval_ = Modulus - 1
    /\ since = interval_
    /\ now < lastTrigger_

(***************************************************************************)
(* The polling loop: the caller calls elapsed() once at every clock value, *)
(* and never reset() or setInterval().                                     *)
(***************************************************************************)

\* The caller polls elapsed() at a clock value it has not polled yet.
PollElapsed == call.op = "none" /\ elapsed

\* Lines 25-26 of the poll in progress.
PollAssign == elapsed_assign

\* The counter advances after the poll at this value began.
PollTick == call.op # "none" /\ Tick

PollNext == PollElapsed \/ PollAssign \/ PollTick

\* The polling loop, with the clock advancing and the caller running on.
SpecPoll ==
    Init /\ [][PollNext]_vars
         /\ WF_vars(PollElapsed) /\ WF_vars(PollAssign) /\ WF_vars(PollTick)

\* C16: when the clock advances one tick at a time forever and elapsed() is
\* polled at every tick, with no reset() or setInterval(), elapsed() returns
\* true infinitely often, for every interval below 2^W.
C16_FiresInfinitelyOften == []<>(Returned /\ call.ret)

\* C16 witness: elapsed() has fired for the longest interval across a wraparound.
C16_Witness ==
    /\ Returned
    /\ call.ret
    /\ call.I = Modulus - 1
    /\ Wrapped
    /\ call.d = call.I

(***************************************************************************)
(* The timer on the 32-bit clock of the target, from its construction near *)
(* the top of the clock's range to its first firing. An unsigned long is a *)
(* pair <<hi, lo>> of 16-bit halves, its value being hi * 2^16 + lo; now,  *)
(* interval_ and lastTrigger_ hold such pairs in this specification.       *)
(***************************************************************************)

\* The timer is constructed at a clock value from 2^32 - MaxBack to 2^32 - 1.
MaxBack == 6

\* The intervals constructed: 0..MaxInterval32.
MaxInterval32 == 12

\* The clock is followed for MaxSince32 milliseconds after construction.
MaxSince32 == 14

Limb == 2^16

\* The unsigned long of value n, 0 <= n < 2^16.
Small32(n) == <<0, n>>

\* The unsigned long of value 2^32 - k, 1 <= k <= 2^16.
Max32Minus(k) == <<Limb - 1, Limb - k>>

\* The unsigned long after a, wrapping from 2^32 - 1 to 0.
Inc32(a) == IF a[2] = Limb - 1 THEN <<(a[1] + 1) % Limb, 0>> ELSE <<a[1], a[2] + 1>>

\* a >= b on unsigned longs.
Geq32(a, b) == a[1] > b[1] \/ (a[1] = b[1] /\ a[2] >= b[2])

\* Subtraction of two unsigned longs modulo 2^32: the low halves with a borrow.
Sub32(a, b) ==
    LET lo == a[2] - b[2]
        borrow == IF lo < 0 THEN 1 ELSE 0
    IN  <<(a[1] - b[1] - borrow) % Limb, lo % Limb>>

\* Line 24 comparing only while the clock has not wrapped (mutation of elapsed_cond32).
elapsed_cond32_nowrap(m, L, I) == Geq32(m, L) /\ Geq32(Sub32(m, L), I)

\* Line 24 on the 32-bit clock: the condition of elapsed().
elapsed_cond32(m, L, I) == Geq32(Sub32(m, L), I)

\* The constructor, lines 19-21, called near the top of the clock's range.
Init32 ==
    /\ now \in {Max32Minus(k) : k \in 1..MaxBack}
    /\ interval_ \in {Small32(n) : n \in 0..MaxInterval32}
    /\ lastTrigger_ = millis
    /\ pc = "idle"
    /\ call = NoCall
    /\ since = 0
    /\ remSeen = NoRem
    /\ remClean = NoRem
    /\ twin = NoCall

\* elapsed() has returned true: the timer has fired.
Fired32 == pc = "idle" /\ call.op = "elapsed" /\ call.ret

\* elapsed() on the 32-bit clock up to its second clock read: line 24, and line 28 when false.
elapsed32 ==
    LET m == millis
        c == elapsed_cond32(m, lastTrigger_, interval_)
    IN  /\ pc = "idle"
        /\ ~Fired32
        /\ call' = Call("elapsed", c, 0, m)
        /\ pc' = IF c THEN "assign" ELSE "idle"
        /\ UNCHANGED <<now, interval_, lastTrigger_, since, remSeen, remClean, twin>>

\* Lines 25-26 on the 32-bit clock.
elapsed32_assign ==
    /\ pc = "assign"
    /\ lastTrigger_' = millis
    /\ pc' = "idle"
    /\ UNCHANGED <<now, interval_, call, since, remSeen, remClean, twin>>

\* The 32-bit counter advances by one millisecond, wrapping at 2^32.
Tick32 ==
    /\ ~Fired32
    /\ since < MaxSince32
    /\ now' = Inc32(now)
    /\ since' = since + 1
    /\ call' = IF pc = "idle" THEN NoCall ELSE call
    /\ UNCHANGED <<interval_, lastTrigger_, pc, remSeen, remClean, twin>>

Next32 == elapsed32 \/ elapsed32_assign \/ Tick32

Spec32 == Init32 /\ [][Next32]_vars

\* elapsed() is called on the timer constructed at 2^32 - 5 with interval 10.
Scenario12 ==
    /\ call.op = "elapsed"
    /\ call.L = Max32Minus(5)
    /\ call.I = Small32(10)

\* C12 as stated: 11 ms after construction (clock 2^32 + 6) the observed
\* clock value is 1 and elapsed() returns true.
C12_Original ==
    (Scenario12 /\ call.d = 11) => (call.obs = Small32(1) /\ call.ret)

\* C12 amended: 11 ms after construction (clock 2^32 + 6) the observed clock
\* value is 6 and elapsed() returns true; at the observed value 1 only 6 ms
\* have passed and elapsed() returns false. On every timer of the
\* specification elapsed() returns true exactly when the true time since
\* construction is at least the interval.
C12_WrapScenario ==
    /\ (Scenario12 /\ call.d = 11) => (call.obs = Small32(6) /\ call.ret)
    /\ (Scenario12 /\ call.obs = Small32(1)) => (call.d = 6 /\ ~call.ret)
    /\ call.op = "elapsed" => (call.ret <=> call.d >= call.I[2])

\* C12 witness: the timer of the scenario has fired 11 ms after construction.
C12_Witness ==
    /\ Fired32
    /\ Scenario12
    /\ call.d = 11
    /\ call.obs = Small32(6)

====
